---------------------------- MODULE Spec2Model ----------------------------
(***************************************************************************)
(* CSV import service: app/main.py (job tracker, HTTP handlers) and        *)
(* app/import_script.py (ImportResult, download_files, get_table_schema,   *)
(* process_dataframe, import_data, run_import).                            *)
(*                                                                         *)
(* A job's coroutine is modelled by a frame (its locals and its position). *)
(* Everything outside the process (SFTP server, PostgreSQL, the local file *)
(* system, the wall clock) is an environment whose answers are chosen      *)
(* nondeterministically; the number of failures it injects in one          *)
(* behaviour is bounded by MaxFaults.                                      *)
(***************************************************************************)
EXTENDS Integers, Sequences, FiniteSets, TLC

(***************************************************************************)
(* Bounds of the model                                                     *)
(***************************************************************************)
MaxFaults == 2
    \* failures the environment injects in one behaviour of Spec
MaxLoadFaults == 2
    \* failures the environment injects in one behaviour of SpecLoad
MaxFiles == 2
    \* entries of the remote directory listing
MaxJobs == 2
    \* POST /import requests of the overlapping-jobs specification
MaxCols == 3
    \* columns of the tables drawn for the column matcher
MaxHeaders == 2
    \* header names of the files drawn for the column matcher

(***************************************************************************)
(* Program constants                                                       *)
(***************************************************************************)
CHUNK_SIZE == 10000
batch_size == 1000
LargeFileMB == 10
ExpectedFiles == 3
LogCap == 100

\* Python None for a time / for a timestamp that was not supplied
NoTime == -1

Min(a, b) == IF a < b THEN a ELSE b

(***************************************************************************)
(* File names.  A name is a sequence of characters, so that                *)
(* str.endswith('.csv') and os.path.splitext act on it as they do in       *)
(* Python.                                                                 *)
(***************************************************************************)
DotCsv == <<".", "c", "s", "v">>

NameA == <<"a", ".", "c", "s", "v">>
    \* a.csv
NameHidden == <<".", "c", "s", "v">>
    \* .csv
NameHiddenCsv == <<".", "c", "s", "v", ".", "c", "s", "v">>
    \* .csv.csv
NameTxt == <<"a", ".", "t", "x", "t">>
    \* a.txt

RemoteNames == {NameA, NameHidden, NameHiddenCsv, NameTxt}

\* f.endswith('.csv')
EndsWithCsv(f) ==
    /\ Len(f) >= Len(DotCsv)
    /\ SubSeq(f, Len(f) - Len(DotCsv) + 1, Len(f)) = DotCsv

\* p.rfind('.'): the last position of '.', 0 when there is none
RFindDot(p) ==
    LET at == {i \in DOMAIN p : p[i] = "."}
    IN  IF at = {} THEN 0 ELSE CHOOSE i \in at : \A k \in at : k <= i

\* os.path.splitext(p)[0] for a name without directory separators: the
\* extension starts at the last dot, unless only dots precede that dot
SplitExtRoot(p) ==
    LET dotIndex == RFindDot(p)
    IN  IF dotIndex > 0 /\ \E i \in 1..(dotIndex - 1) : p[i] /= "."
        THEN SubSeq(p, 1, dotIndex - 1)
        ELSE p

\* [f for f in listing if f.endswith('.csv')]
RECURSIVE CsvFilter(_)
CsvFilter(listing) ==
    IF listing = <<>> THEN <<>>
    ELSE IF EndsWithCsv(Head(listing))
         THEN <<Head(listing)>> \o CsvFilter(Tail(listing))
         ELSE CsvFilter(Tail(listing))

\* the listings sftp.listdir() may return: duplicate-free sequences of names
Listings ==
    {s \in UNION {[1..n -> RemoteNames] : n \in 0..MaxFiles} :
        \A i, k \in DOMAIN s : i /= k => s[i] /= s[k]}

(***************************************************************************)
(* ImportResult                                                            *)
(***************************************************************************)
\* ImportResult.__init__, at time now
NewImportResult(now) ==
    [start_time |-> now,
     end_time |-> NoTime,
     downloaded_files |-> <<>>,
     processed_files |-> <<>>,
     status |-> "running",
     errors |-> <<>>,
     log_messages |-> <<>>]

\* a log message: its fixed text and the number or name formatted into it
Msg(text) == [text |-> text, n |-> 0, name |-> ""]
MsgN(text, n) == [text |-> text, n |-> n, name |-> ""]
MsgName(text, name) == [text |-> text, n |-> 0, name |-> name]

\* ImportResult.log: every entry joins log_messages, ERROR entries also join
\* errors
LogErrorsTooMutant(r, level, message) ==
    [r EXCEPT !.log_messages = Append(@, [level |-> level, message |-> message]),
              !.errors = IF level \in {"ERROR", "WARNING"}
                         THEN Append(@, message) ELSE @]

Log(r, level, message) ==
    [r EXCEPT !.log_messages = Append(@, [level |-> level, message |-> message]),
              !.errors = IF level = "ERROR" THEN Append(@, message) ELSE @]

\* ImportResult.complete
Complete(r, success, now) ==
    [r EXCEPT !.end_time = now,
              !.status = IF success THEN "success" ELSE "failed"]

\* the last LogCap entries of a log
LastLines(s) ==
    IF Len(s) > LogCap THEN SubSeq(s, Len(s) - LogCap + 1, Len(s)) ELSE s

\* {file: count for file, count in processed_files}: a later pair of the same
\* file replaces an earlier one
RowCounts(processed) ==
    [f \in {processed[i].file : i \in DOMAIN processed} |->
        LET at == {i \in DOMAIN processed : processed[i].file = f}
        IN  processed[CHOOSE i \in at : \A k \in at : k <= i].rows]

\* ImportResult.to_dict
ToDict(r) ==
    [status |-> r.status,
     start_time |-> r.start_time,
     end_time |-> r.end_time,
     duration_seconds |-> IF r.end_time /= NoTime
                          THEN r.end_time - r.start_time ELSE NoTime,
     downloaded_files |-> r.downloaded_files,
     processed_files |-> r.processed_files,
     errors |-> r.errors,
     row_counts |-> RowCounts(r.processed_files),
     log_messages |-> LastLines(r.log_messages)]

(***************************************************************************)
(* Cell values, as pandas hands them to the loader: a Python type and a    *)
(* literal.  Declared column types are PostgreSQL data_type strings.       *)
(***************************************************************************)
PyNaN == [py |-> "float", v |-> "nan"]
PyInf == [py |-> "float", v |-> "inf"]
PyFloat == [py |-> "float", v |-> "1.5"]
PyInt == [py |-> "int", v |-> "17"]
PyEmpty == [py |-> "str", v |-> ""]
PyStrInt == [py |-> "str", v |-> "17"]
PyStrText == [py |-> "str", v |-> "abc"]
PyStrDate == [py |-> "str", v |-> "2024-01-15"]
PyStrTs == [py |-> "str", v |-> "2024-01-15 10:00:00"]

CellValues ==
    {PyNaN, PyInf, PyFloat, PyInt, PyEmpty, PyStrInt, PyStrText, PyStrDate, PyStrTs}

IntegerTypes == {"integer", "bigint", "smallint"}
NumericTypes == {"numeric", "decimal", "real", "double precision"}
TimestampTypes == {"timestamp without time zone", "timestamp with time zone"}
ColumnTypes == IntegerTypes \cup NumericTypes \cup TimestampTypes \cup {"date", "text"}

\* what a cell of the parameter tuple holds
PyNone == [py |-> "None", v |-> "None"]
Ok(x) == [raised |-> "", value |-> x]
Raise(exc) == [raised |-> exc, value |-> PyNone]

\* the load timestamp put in a tuple
PyDatetime(t) == [py |-> "datetime", v |-> "now", at |-> t]

\* int(value)
PyIntOf(value) ==
    CASE value.py = "int" -> Ok(value)
      [] value.py = "float" /\ value.v = "inf" -> Raise("OverflowError")
      [] value.py = "float" /\ value.v = "nan" -> Raise("ValueError")
      [] value.py = "float" -> Ok([py |-> "int", v |-> "1"])
      [] value.py = "str" /\ value.v = "17" -> Ok([py |-> "int", v |-> "17"])
      [] value.py = "str" -> Raise("ValueError")
      [] OTHER -> Raise("TypeError")

\* float(value)
PyFloatOf(value) ==
    CASE value.py = "float" -> Ok(value)
      [] value.py = "int" -> Ok([py |-> "float", v |-> "17.0"])
      [] value.py = "str" /\ value.v = "17" -> Ok([py |-> "float", v |-> "17.0"])
      [] value.py = "str" -> Raise("ValueError")
      [] OTHER -> Raise("TypeError")

\* datetime.strptime(value, '%Y-%m-%d').date()
PyDateOf(value) ==
    IF value.v = "2024-01-15"
    THEN Ok([py |-> "date", v |-> "2024-01-15"])
    ELSE Raise("ValueError")

\* datetime.strptime(value, '%Y-%m-%d %H:%M:%S')
PyTimestampOf(value) ==
    IF value.v = "2024-01-15 10:00:00"
    THEN Ok([py |-> "datetime", v |-> "2024-01-15 10:00:00"])
    ELSE Raise("ValueError")

\* try: ... except (ValueError, TypeError): None
OrNone(res) ==
    IF res.raised \in {"ValueError", "TypeError"} THEN Ok(PyNone) ELSE res

\* pd.isna(value) or value == ''
IsBlank(value) ==
    \/ value.py = "float" /\ value.v = "nan"
    \/ value.py = "str" /\ value.v = ""

\* the type conversion of one cell that has a source column
Coerce(value, col_type) ==
    IF IsBlank(value) THEN Ok(PyNone)
    ELSE IF col_type \in IntegerTypes THEN OrNone(PyIntOf(value))
    ELSE IF col_type \in NumericTypes THEN OrNone(PyFloatOf(value))
    ELSE IF col_type = "date"
         THEN (IF value.py = "str" THEN OrNone(PyDateOf(value)) ELSE Ok(value))
    ELSE IF col_type \in TimestampTypes
         THEN (IF value.py = "str" THEN OrNone(PyTimestampOf(value)) ELSE Ok(value))
    ELSE Ok(value)

(***************************************************************************)
(* Column names and the column matcher                                     *)
(***************************************************************************)
DbColumnNames == {"id", "amount", "loaded_at", "Name"}
HeaderNames == {"ID", "id", "Amount", "name", "Loaded_At", "extra"}

\* str.lower()
Lower(s) ==
    CASE s \in {"ID", "id"} -> "id"
      [] s \in {"Amount", "amount"} -> "amount"
      [] s \in {"Name", "name"} -> "name"
      [] s \in {"Loaded_At", "loaded_at"} -> "loaded_at"
      [] OTHER -> s

LastMatchIndexMutant(db_col, columns) ==
    LET at == {i \in DOMAIN columns : Lower(columns[i]) = Lower(db_col)}
    IN  IF at = {} THEN 0 ELSE CHOOSE i \in at : \A k \in at : k <= i

\* the inner loop: the first header equal to db_col without regard to case
\* (0: none), and "if match:", which also fails for an empty header
FirstMatchIndex(db_col, columns) ==
    LET at == {i \in DOMAIN columns : Lower(columns[i]) = Lower(db_col)}
    IN  IF at = {} THEN 0 ELSE CHOOSE i \in at : \A k \in at : i <= k

HasMatch(db_col, columns) ==
    /\ FirstMatchIndex(db_col, columns) /= 0
    /\ columns[FirstMatchIndex(db_col, columns)] /= ""

\* one (db_col, df_col) pair; df_col None is none = TRUE
Pair(db_col, df_col) == [db_col |-> db_col, df_col |-> df_col, none |-> FALSE]
PairNone(db_col) == [db_col |-> db_col, df_col |-> "", none |-> TRUE]

\* matched_columns of process_dataframe
RECURSIVE MatchColumns(_, _)
MatchColumns(db_columns, columns) ==
    IF db_columns = <<>> THEN <<>>
    ELSE LET db_col == Head(db_columns)
             rest == MatchColumns(Tail(db_columns), columns)
         IN  IF HasMatch(db_col, columns)
             THEN <<Pair(db_col, columns[FirstMatchIndex(db_col, columns)])>> \o rest
             ELSE IF db_col = "loaded_at"
                  THEN <<PairNone(db_col)>> \o rest
                  ELSE rest

\* the declared columns for which "Column ... not found in CSV" is logged
RECURSIVE MissingColumns(_, _)
MissingColumns(db_columns, columns) ==
    IF db_columns = <<>> THEN <<>>
    ELSE LET db_col == Head(db_columns)
             rest == MissingColumns(Tail(db_columns), columns)
         IN  IF ~HasMatch(db_col, columns) /\ db_col /= "loaded_at"
             THEN <<db_col>> \o rest
             ELSE rest

\* result.log("WARNING", ...) for each missing column, in order
RECURSIVE LogMissing(_, _)
LogMissing(r, missing) ==
    IF missing = <<>> THEN r
    ELSE LogMissing(Log(r, "WARNING", MsgName("Column not found in CSV", Head(missing))),
                    Tail(missing))

(***************************************************************************)
(* Data frames.  A frame of nrows rows is given by its header, the row     *)
(* every position holds (plain) and the rows of the positions that differ  *)
(* (odd, by 0-based position), so that files of more than CHUNK_SIZE rows  *)
(* are represented without listing their rows.  A row is a tuple of cell   *)
(* values, one per header column.                                          *)
(***************************************************************************)
NoOdd == [i \in {} |-> <<>>]

\* col.strip().replace(BOM, '') on a header as pd.read_csv returns it
CleanColumn(col) ==
    CASE col = " id " -> "id"
      [] col = "<BOM>ID" -> "ID"
      [] col = "<BOM> id" -> " id"
      [] OTHER -> col

CleanColumns(columns) == [i \in DOMAIN columns |-> CleanColumn(columns[i])]

\* df.iloc[start:end]
ILoc(df, start, end) ==
    LET e == Min(end, df.nrows)
        kept == {i \in DOMAIN df.odd : start <= i /\ i < e}
    IN  [df EXCEPT !.nrows = IF e > start THEN e - start ELSE 0,
                   !.odd = [i \in {k - start : k \in kept} |-> df.odd[i + start]]]

\* row[df_col]: the cell under header df_col; with the header twice in the
\* frame it is a Series, whose truth value in "pd.isna(value) or ..." raises
\* outside every try
Cell(row, columns, df_col) ==
    LET at == {i \in DOMAIN columns : columns[i] = df_col}
    IN  IF Cardinality(at) = 1
        THEN Ok(row[CHOOSE i \in at : TRUE])
        ELSE Raise("ValueError: truth value of a Series is ambiguous")

\* next(schema_col[1] for schema_col in schema if schema_col[0] == db_col)
ColType(schema, db_col) ==
    LET at == {i \in DOMAIN schema : schema[i].column_name = db_col}
    IN  schema[CHOOSE i \in at : \A k \in at : i <= k].data_type

\* one position of row_data
CellData(row, columns, pair, schema, current_timestamp) ==
    IF pair.db_col = "loaded_at" /\ pair.none
    THEN Ok(PyDatetime(current_timestamp))
    ELSE LET c == Cell(row, columns, pair.df_col)
         IN  IF c.raised /= "" THEN c
             ELSE Coerce(c.value, ColType(schema, pair.db_col))

\* tuple(row_data), or the exception that ends the row loop
RowData(row, columns, matched_columns, schema, current_timestamp) ==
    LET cells == [k \in DOMAIN matched_columns |->
                    CellData(row, columns, matched_columns[k], schema,
                             current_timestamp)]
        bad == {k \in DOMAIN cells : cells[k].raised /= ""}
    IN  IF bad = {}
        THEN Ok([k \in DOMAIN cells |-> cells[k].value])
        ELSE Raise(cells[CHOOSE k \in bad : \A m \in bad : k <= m].raised)

\* batch_data for df.iloc[start_idx:end_idx]: the tuples of that slice, in the
\* representation of frames, or the first exception of the row loop
BatchData(df, matched_columns, schema, current_timestamp, start_idx, end_idx) ==
    LET part == ILoc(df, start_idx, end_idx)
        tup(row) == RowData(row, df.columns, matched_columns, schema,
                            current_timestamp)
        hasPlain == Cardinality(DOMAIN part.odd) < part.nrows
        firstPlain == CHOOSE i \in 0..Cardinality(DOMAIN part.odd) :
                         /\ i \notin DOMAIN part.odd
                         /\ \A k \in 0..(i - 1) : k \in DOMAIN part.odd
        rowAt(i) == IF i \in DOMAIN part.odd THEN part.odd[i] ELSE part.plain
        bad == {i \in DOMAIN part.odd : tup(part.odd[i]).raised /= ""}
               \cup (IF hasPlain /\ tup(part.plain).raised /= ""
                     THEN {firstPlain} ELSE {})
    IN  IF bad /= {}
        THEN Raise(tup(rowAt(CHOOSE i \in bad : \A k \in bad : i <= k)).raised)
        ELSE Ok([nrows |-> part.nrows,
                 plain |-> IF hasPlain THEN tup(part.plain).value ELSE <<>>,
                 odd |-> [i \in DOMAIN part.odd |-> tup(part.odd[i]).value]])

NoBatch == [nrows |-> 0, plain |-> <<>>, odd |-> NoOdd]

(***************************************************************************)
(* The environment's answers                                               *)
(***************************************************************************)
Col(name, type) == [column_name |-> name, data_type |-> type]

\* what information_schema.columns holds for a table; <<>>: no such table
SchemaNone == <<>>
SchemaStd ==
    <<Col("id", "integer"), Col("amount", "numeric"),
      Col("loaded_at", "timestamp without time zone")>>
SchemaOther == <<Col("Name", "text")>>

Schemas == {SchemaNone, SchemaStd, SchemaOther}

Df(columns, nrows, plain, odd, bytes) ==
    [columns |-> columns, nrows |-> nrows, plain |-> plain, odd |-> odd,
     size_bytes |-> bytes]

SmallBytes == 4096
LargeBytes == LargeFileMB * 1024 * 1024 + 1

\* what pd.read_csv returns for a downloaded file
DfMixed ==
    Df(<<"<BOM>ID", "Amount">>, 3, <<PyStrInt, PyFloat>>,
       (1 :> <<PyStrText, PyNaN>>), SmallBytes)
DfInf ==
    Df(<<"id", "Amount">>, 2, <<PyFloat, PyInt>>, (1 :> <<PyInf, PyInt>>),
       SmallBytes)
DfThreeBatches ==
    Df(<<"id", "Amount">>, 2 * batch_size + 1, <<PyInt, PyFloat>>, NoOdd,
       SmallBytes)
DfLarge ==
    Df(<<"id", "Amount">>, CHUNK_SIZE + 1, <<PyInt, PyFloat>>, NoOdd, LargeBytes)
\* a large file whose second row has inf under id
DfLargeInf ==
    Df(<<"id", "Amount">>, CHUNK_SIZE + 1, <<PyInt, PyFloat>>,
       (1 :> <<PyInf, PyInt>>), LargeBytes)
\* a small file of LogCap batches
DfManyBatches ==
    Df(<<"id", "Amount">>, LogCap * batch_size, <<PyInt, PyFloat>>, NoOdd, SmallBytes)
DfEmpty == Df(<<"id">>, 0, <<PyNaN>>, NoOdd, SmallBytes)
DfExtra == Df(<<"extra">>, 1, <<PyStrText>>, NoOdd, SmallBytes)

Contents ==
    {DfMixed, DfInf, DfThreeBatches, DfLarge, DfLargeInf, DfEmpty, DfExtra}

(***************************************************************************)
(* State                                                                   *)
(***************************************************************************)
VARIABLES
    import_tasks,   \* main.py: job_id -> {status, start_time, result}
    frame,          \* job_id -> the locals and position of its run_import_job
    dbLog,          \* the operations issued to the database, in order
    clock,          \* the wall clock read by datetime.now()
    requests,       \* POST /import requests the clients have yet to send
    faults          \* failures the environment may still inject

vars == <<import_tasks, frame, dbLog, clock, requests, faults>>

JobIds == 1..MaxJobs

ResultNone == [kind |-> "None"]
ResultObject(r) == [kind |-> "ImportResult", obj |-> r]
ResultDict(d) == [kind |-> "dict", obj |-> d]

\* the locals of import_data and process_dataframe before they are assigned
NoLocals ==
    [schema |-> <<>>,
     df |-> DfEmpty,
     chunked |-> FALSE,
     chunk_start |-> 0,
     cur |-> DfEmpty,
     matched_columns |-> <<>>,
     current_timestamp |-> NoTime,
     start_idx |-> 0,
     rows_inserted |-> 0,
     rows_imported |-> 0,
     ret |-> 0,
     ret_false |-> FALSE]

\* the locals of a job's coroutine before its first step; completes and
\* cleanups count the calls of complete() and the runs of the finally block
NewFrame ==
    [pc |-> "scheduled",
     result |-> NewImportResult(NoTime),
     download_dir |-> FALSE,
     files |-> <<>>,
     fidx |-> 0,
     csv_file |-> <<>>,
     table_name |-> <<>>,
     pool |-> "none",
     conn |-> FALSE,
     loc |-> NoLocals,
     completes |-> 0,
     cleanups |-> 0]

\* one operation issued to the database by job j
Ev(j, f, op, ok) ==
    [job |-> j, op |-> op, table |-> f.table_name, file |-> f.csv_file,
     ok |-> ok, rows |-> 0, first |-> 0, batch |-> NoBatch]
\* the schema query, answered with ncols rows
EvFetch(j, f, ncols) == [Ev(j, f, "fetch", TRUE) EXCEPT !.rows = ncols]
\* executemany of a batch whose first row is row first of the file
EvInsert(j, f, ok, batch) ==
    [job |-> j, op |-> "executemany", table |-> f.table_name,
     file |-> f.csv_file, ok |-> ok, rows |-> batch.nrows,
     first |-> f.loc.chunk_start + f.loc.start_idx, batch |-> batch]

CanFail == faults > 0

\* job j moves to frame f2 having issued the operations events; leaving the
\* "async with pool.acquire()" block gives the connection back; time passes
Step(j, f2, events) ==
    /\ frame' = [frame EXCEPT ![j] = f2]
    /\ dbLog' = dbLog \o events \o
                (IF frame[j].conn /\ ~f2.conn
                 THEN <<Ev(j, frame[j], "release", TRUE)>> ELSE <<>>)
    /\ clock' = clock + 1

(***************************************************************************)
(* Control flow of run_import and import_data, as functions of a frame     *)
(***************************************************************************)
\* import_data is entered for files[idx], up to its first await
StartFile(f, idx) ==
    [f EXCEPT !.fidx = idx,
              !.csv_file = f.files[idx],
              !.table_name = SplitExtRoot(f.files[idx]),
              !.loc = NoLocals,
              !.result = Log(@, "INFO", Msg("Processing file into table")),
              !.pc = "acquire"]

\* import_data returns rows to run_import's loop, which records them and
\* goes to the next file
ReturnImportDataLeakMutant(f, rows, isFalse) ==
    LET g == [f EXCEPT !.loc = NoLocals,
                       !.result.processed_files =
                           Append(@, [file |-> f.csv_file, rows |-> rows,
                                      is_false |-> isFalse])]
    IN  IF f.fidx < Len(f.files)
        THEN StartFile(g, f.fidx + 1)
        ELSE [g EXCEPT !.pc = "close_pool"]

ReturnImportDataSkipsZeroMutant(f, rows, isFalse) ==
    LET g == [f EXCEPT !.conn = FALSE,
                       !.loc = NoLocals,
                       !.result.processed_files =
                           IF rows = 0 THEN @
                           ELSE Append(@, [file |-> f.csv_file, rows |-> rows,
                                           is_false |-> isFalse])]
    IN  IF f.fidx < Len(f.files)
        THEN StartFile(g, f.fidx + 1)
        ELSE [g EXCEPT !.pc = "close_pool"]

ReturnImportData(f, rows, isFalse) ==
    LET g == [f EXCEPT !.conn = FALSE,
                       !.loc = NoLocals,
                       !.result.processed_files =
                           Append(@, [file |-> f.csv_file, rows |-> rows,
                                      is_false |-> isFalse])]
    IN  IF f.fidx < Len(f.files)
        THEN StartFile(g, f.fidx + 1)
        ELSE [g EXCEPT !.pc = "close_pool"]

\* the exception exc inside import_data's try block
RaiseInImportData(f, exc) ==
    ReturnImportData(
        [f EXCEPT !.result = Log(Log(@, "ERROR", MsgName("Error processing file", exc)),
                                 "ERROR", Msg("traceback"))],
        0, FALSE)

\* an exception that reaches run_import's except clause
RaiseInRunImport(f, now) ==
    [f EXCEPT !.conn = FALSE,
              !.loc = NoLocals,
              !.result = Complete(Log(Log(@, "ERROR", Msg("Unexpected error")),
                                      "ERROR", Msg("traceback")),
                                  FALSE, now),
              !.completes = @ + 1,
              !.pc = "cleanup"]

\* process_dataframe is entered for the frame part, up to the column match
EnterProcessDataframe(f, part) ==
    [f EXCEPT !.loc.cur = part, !.pc = "match"]

\* process_dataframe returns rows (False when no column matched)
ReturnProcessDataframe(f, rows, isFalse) ==
    [f EXCEPT !.loc.ret = rows, !.loc.ret_false = isFalse, !.pc = "pd_return"]

(***************************************************************************)
(* Initial state                                                           *)
(***************************************************************************)
\* the process has just started; the clients will send nRequests requests and
\* the environment fails at most nFaults times
InitWith(nRequests, nFaults) ==
    /\ import_tasks = [j \in {} |-> 0]
    /\ frame = [j \in {} |-> 0]
    /\ dbLog = <<>>
    /\ clock = 0
    /\ requests = nRequests
    /\ faults = nFaults

(***************************************************************************)
(* main.py                                                                 *)
(***************************************************************************)
\* POST /import
start_import_QueuedMutant ==
    /\ requests > 0
    /\ \E job_id \in JobIds \ DOMAIN import_tasks :
          /\ \A k \in JobIds \ DOMAIN import_tasks : job_id <= k
          /\ import_tasks' = import_tasks @@
                (job_id :> [status |-> "queued", start_time |-> clock,
                            result |-> ResultNone])
          /\ frame' = frame @@ (job_id :> NewFrame)
    /\ requests' = requests - 1
    /\ UNCHANGED <<dbLog, clock, faults>>

start_import ==
    /\ requests > 0
    /\ \E job_id \in JobIds \ DOMAIN import_tasks :
          /\ \A k \in JobIds \ DOMAIN import_tasks : job_id <= k
          /\ import_tasks' = import_tasks @@
                (job_id :> [status |-> "starting", start_time |-> clock,
                            result |-> ResultNone])
          /\ frame' = frame @@ (job_id :> NewFrame)
    /\ requests' = requests - 1
    /\ UNCHANGED <<dbLog, clock, faults>>

\* run_import_job up to the first await of run_import: the status becomes
\* running, the ImportResult and the scratch directory are created.  When
\* tempfile.mkdtemp raises, run_import raises and run_import_job's handler
\* stores a dict as the result.
run_import_job_start(j) ==
    /\ frame[j].pc = "scheduled"
    /\ LET r == Log(NewImportResult(clock), "INFO", Msg("Starting CSV import process..."))
       IN  \/ /\ frame' = [frame EXCEPT ![j] =
                    [@ EXCEPT !.result = Log(r, "INFO", Msg("Created temporary directory")),
                              !.download_dir = TRUE,
                              !.pc = "download"]]
              /\ import_tasks' = [import_tasks EXCEPT ![j].status = "running"]
              /\ UNCHANGED faults
           \/ /\ CanFail
              /\ faults' = faults - 1
              /\ frame' = [frame EXCEPT ![j] = [@ EXCEPT !.result = r, !.pc = "done"]]
              /\ import_tasks' = [import_tasks EXCEPT
                    ![j].status = "failed",
                    ![j].result = ResultDict(
                        [status |-> "failed",
                         start_time |-> import_tasks[j].start_time,
                         end_time |-> clock,
                         errors |-> <<Msg("Unexpected error")>>,
                         log_messages |-> <<Msg("ERROR: Unexpected error")>>])]
    /\ UNCHANGED <<dbLog, clock, requests>>

\* run_import_job after run_import has returned
run_import_job_endStaleStatusMutant(j) ==
    /\ frame[j].pc = "return"
    /\ import_tasks' = [import_tasks EXCEPT
          ![j].result = ResultObject(frame[j].result)]
    /\ frame' = [frame EXCEPT ![j].pc = "done"]
    /\ UNCHANGED <<dbLog, clock, requests, faults>>

run_import_job_end(j) ==
    /\ frame[j].pc = "return"
    /\ import_tasks' = [import_tasks EXCEPT
          ![j].result = ResultObject(frame[j].result),
          ![j].status = frame[j].result.status]
    /\ frame' = [frame EXCEPT ![j].pc = "done"]
    /\ UNCHANGED <<dbLog, clock, requests, faults>>

(***************************************************************************)
(* import_script.py                                                        *)
(***************************************************************************)
\* run_import once download_files has returned files
AfterDownloadSuccessMutant(f, files, now) ==
    IF files = <<>>
    THEN [f EXCEPT !.files = files,
                   !.result = Complete(
                       Log(@, "ERROR", Msg("No files were downloaded. Exiting.")),
                       TRUE, now),
                   !.completes = @ + 1,
                   !.pc = "cleanup"]
    ELSE [f EXCEPT !.files = files,
                   !.result = Log(@, "INFO", Msg("Creating database connection pool...")),
                   !.pc = "create_pool"]

AfterDownloadNoErrorMutant(f, files, now) ==
    IF files = <<>>
    THEN [f EXCEPT !.files = files,
                   !.result = Complete(@, FALSE, now),
                   !.completes = @ + 1,
                   !.pc = "cleanup"]
    ELSE [f EXCEPT !.files = files,
                   !.result = Log(@, "INFO", Msg("Creating database connection pool...")),
                   !.pc = "create_pool"]

AfterDownload(f, files, now) ==
    IF files = <<>>
    THEN [f EXCEPT !.files = files,
                   !.result = Complete(
                       Log(@, "ERROR", Msg("No files were downloaded. Exiting.")),
                       FALSE, now),
                   !.completes = @ + 1,
                   !.pc = "cleanup"]
    ELSE [f EXCEPT !.files = files,
                   !.result = Log(@, "INFO", Msg("Creating database connection pool...")),
                   !.pc = "create_pool"]

\* download_files, and run_import up to its next await
DownloadFiles(j, listings) ==
    /\ frame[j].pc = "download"
    /\ LET f == [frame[j] EXCEPT
                    !.result = Log(@, "INFO", Msg("Downloading files from SFTP server"))]
           failed(g) == [g EXCEPT !.result = Log(@, "ERROR", Msg("Error downloading files"))]
           listed(files) ==
               [f EXCEPT !.result =
                   Log(IF Len(files) /= ExpectedFiles
                       THEN Log(@, "WARNING", MsgN("Expected exactly 3 files, but found", Len(files)))
                       ELSE @,
                       "INFO", Msg("Found files"))]
       IN  \/ /\ CanFail
              /\ faults' = faults - 1
              /\ \E at \in {"connect", "start_sftp_client", "chdir", "listdir"} :
                    Step(j, AfterDownload(failed(f), <<>>, clock), <<>>)
           \/ \E listing \in listings :
                 LET files == CsvFilter(listing)
                 IN  \/ /\ UNCHANGED faults
                        /\ Step(j, AfterDownload(
                                [listed(files) EXCEPT
                                    !.result = [Log(@, "INFO", MsgN("Successfully downloaded files", Len(files)))
                                                EXCEPT !.downloaded_files = files]],
                                files, clock), <<>>)
                     \/ /\ files /= <<>>
                        /\ CanFail
                        /\ faults' = faults - 1
                        /\ Step(j, AfterDownload(failed(listed(files)), <<>>, clock), <<>>)
    /\ UNCHANGED <<import_tasks, requests>>

\* asyncpg.create_pool, and the entry of import_data for the first file
CreatePool(j) ==
    /\ frame[j].pc = "create_pool"
    /\ \/ /\ UNCHANGED faults
          /\ Step(j, StartFile([frame[j] EXCEPT !.pool = "open"], 1),
                  <<Ev(j, frame[j], "create_pool", TRUE)>>)
       \/ /\ CanFail
          /\ faults' = faults - 1
          /\ Step(j, RaiseInRunImport(frame[j], clock),
                  <<Ev(j, frame[j], "create_pool", FALSE)>>)
    /\ UNCHANGED <<import_tasks, requests>>

\* pool.acquire()
Acquire(j) ==
    /\ frame[j].pc = "acquire"
    /\ \/ /\ UNCHANGED faults
          /\ Step(j, [frame[j] EXCEPT !.conn = TRUE,
                                      !.result = Log(@, "INFO", Msg("Truncating table")),
                                      !.pc = "truncate"],
                  <<Ev(j, frame[j], "acquire", TRUE)>>)
       \/ /\ CanFail
          /\ faults' = faults - 1
          /\ Step(j, RaiseInRunImport(frame[j], clock),
                  <<Ev(j, frame[j], "acquire", FALSE)>>)
    /\ UNCHANGED <<import_tasks, requests>>

\* TRUNCATE TABLE ... RESTART IDENTITY CASCADE
TruncateAbortsFileMutant(j) ==
    /\ frame[j].pc = "truncate"
    /\ \/ /\ UNCHANGED faults
          /\ Step(j, [frame[j] EXCEPT !.pc = "schema"],
                  <<Ev(j, frame[j], "truncate", TRUE)>>)
       \/ /\ CanFail
          /\ faults' = faults - 1
          /\ Step(j, RaiseInImportData(frame[j], "PostgresError"),
                  <<Ev(j, frame[j], "truncate", FALSE)>>)
    /\ UNCHANGED <<import_tasks, requests>>

Truncate(j) ==
    /\ frame[j].pc = "truncate"
    /\ \/ /\ UNCHANGED faults
          /\ Step(j, [frame[j] EXCEPT !.pc = "schema"],
                  <<Ev(j, frame[j], "truncate", TRUE)>>)
       \/ /\ CanFail
          /\ faults' = faults - 1
          /\ Step(j, [frame[j] EXCEPT
                         !.result = Log(@, "WARNING", Msg("Could not truncate table")),
                         !.pc = "schema"],
                  <<Ev(j, frame[j], "truncate", FALSE)>>)
    /\ UNCHANGED <<import_tasks, requests>>

\* get_table_schema and the check of its result in import_data
GetTableSchema(j, schemas) ==
    /\ frame[j].pc = "schema"
    /\ \/ /\ UNCHANGED faults
          /\ \E schema \in schemas :
                LET f == [frame[j] EXCEPT !.loc.schema = schema,
                                          !.result = Log(@, "INFO", Msg("Schema for table"))]
                IN  IF schema = <<>>
                    THEN Step(j, ReturnImportData(
                                [f EXCEPT !.result =
                                    Log(@, "ERROR", Msg("Could not retrieve schema for table"))],
                                0, FALSE),
                              <<EvFetch(j, frame[j], 0)>>)
                    ELSE Step(j, [f EXCEPT !.pc = "read"],
                              <<EvFetch(j, frame[j], Len(schema))>>)
       \/ /\ CanFail
          /\ faults' = faults - 1
          /\ Step(j, RaiseInRunImport(frame[j], clock),
                  <<Ev(j, frame[j], "fetch", FALSE)>>)
    /\ UNCHANGED <<import_tasks, requests>>

\* import_data from os.path.getsize to the first call of process_dataframe:
\* the file is read, its header cleaned, and a file above 10 MB is cut into
\* chunks of CHUNK_SIZE rows
ReadCsv(j, contents) ==
    /\ frame[j].pc = "read"
    /\ \/ /\ UNCHANGED faults
          /\ \E file \in contents :
                LET df == [file EXCEPT !.columns = CleanColumns(@)]
                    f == [frame[j] EXCEPT !.loc.df = df,
                                          !.loc.rows_imported = 0,
                                          !.result = Log(@, "INFO", Msg("Reading CSV file"))]
                IN  IF df.size_bytes > LargeFileMB * 1024 * 1024
                    THEN LET g == [f EXCEPT !.loc.chunked = TRUE,
                                            !.loc.chunk_start = 0,
                                            !.result = Log(@, "INFO", Msg("Large file detected"))]
                         IN  IF df.nrows > 0
                             THEN Step(j, EnterProcessDataframe(
                                          [g EXCEPT !.result = Log(@, "INFO", MsgN("Processing chunk", 0))],
                                          ILoc(df, 0, CHUNK_SIZE)),
                                       <<>>)
                             ELSE Step(j, ReturnImportData(
                                          [g EXCEPT !.result = Log(@, "INFO", Msg("Completed import"))],
                                          0, FALSE),
                                       <<>>)
                    ELSE Step(j, EnterProcessDataframe(f, df), <<>>)
       \/ /\ CanFail
          /\ faults' = faults - 1
          /\ Step(j, RaiseInImportData(frame[j], "OSError"), <<>>)
    /\ UNCHANGED <<import_tasks, requests>>

\* process_dataframe up to its batch loop: the column match, conn.prepare and
\* the capture of the load timestamp
ProcessDataframeStart(j) ==
    /\ frame[j].pc = "match"
    /\ LET f0 == frame[j]
           db_columns == [i \in DOMAIN f0.loc.schema |-> f0.loc.schema[i].column_name]
           matched == MatchColumns(db_columns, f0.loc.cur.columns)
           f == [f0 EXCEPT !.loc.matched_columns = matched,
                           !.result = LogMissing(@, MissingColumns(db_columns,
                                                                   f0.loc.cur.columns))]
       IN  IF matched = <<>>
           THEN /\ Step(j, ReturnProcessDataframe(
                            [f EXCEPT !.result =
                                Log(@, "ERROR", Msg("No columns matched between CSV and database table"))],
                            0, TRUE),
                        <<>>)
                /\ UNCHANGED faults
           ELSE \/ /\ UNCHANGED faults
                   /\ LET g == [f EXCEPT !.loc.current_timestamp = clock,
                                         !.loc.rows_inserted = 0,
                                         !.loc.start_idx = 0]
                      IN  IF g.loc.cur.nrows > 0
                          THEN Step(j, [g EXCEPT !.pc = "batch"],
                                    <<Ev(j, f0, "prepare", TRUE)>>)
                          ELSE Step(j, ReturnProcessDataframe(
                                        [g EXCEPT !.result =
                                            Log(@, "INFO", MsgN("Inserted rows into table", 0))],
                                        0, FALSE),
                                    <<Ev(j, f0, "prepare", TRUE)>>)
                \/ /\ CanFail
                   /\ faults' = faults - 1
                   /\ Step(j, RaiseInImportData(f, "PostgresError"),
                           <<Ev(j, f0, "prepare", FALSE)>>)
    /\ UNCHANGED <<import_tasks, requests>>

\* the batch loop after the execution of a batch ended (ok: without an
\* exception): the next batch, or the return of rows_inserted
NextBatchStopMutant(f, ok) ==
    LET g == [f EXCEPT !.loc.start_idx = @ + batch_size]
    IN  IF ok /\ g.loc.start_idx < g.loc.cur.nrows
        THEN g
        ELSE ReturnProcessDataframe(
                 [g EXCEPT !.result =
                     Log(@, "INFO", MsgN("Inserted rows into table", g.loc.rows_inserted))],
                 g.loc.rows_inserted, FALSE)

NextBatch(f, ok) ==
    LET g == [f EXCEPT !.loc.start_idx = @ + batch_size]
    IN  IF g.loc.start_idx < g.loc.cur.nrows
        THEN g
        ELSE ReturnProcessDataframe(
                 [g EXCEPT !.result =
                     Log(@, "INFO", MsgN("Inserted rows into table", g.loc.rows_inserted))],
                 g.loc.rows_inserted, FALSE)

\* one iteration of the batch loop: the tuples of rows start_idx..end_idx are
\* built and executed
ExecuteBatch(j) ==
    /\ frame[j].pc = "batch"
    /\ LET f == frame[j]
           end_idx == Min(f.loc.start_idx + batch_size, f.loc.cur.nrows)
           batch_data == BatchData(f.loc.cur, f.loc.matched_columns, f.loc.schema,
                                   f.loc.current_timestamp, f.loc.start_idx, end_idx)
       IN  IF batch_data.raised /= ""
           THEN /\ Step(j, RaiseInImportData(f, batch_data.raised), <<>>)
                /\ UNCHANGED faults
           ELSE \/ /\ UNCHANGED faults
                   /\ Step(j, NextBatch(
                                [f EXCEPT !.loc.rows_inserted = @ + batch_data.value.nrows,
                                          !.result = Log(@, "INFO",
                                                         MsgN("Inserted batch", f.loc.start_idx))],
                                TRUE),
                           <<EvInsert(j, f, TRUE, batch_data.value)>>)
                \/ /\ CanFail
                   /\ faults' = faults - 1
                   /\ Step(j, NextBatch(
                                [f EXCEPT !.result = Log(@, "ERROR", Msg("Error inserting batch"))],
                                FALSE),
                           <<EvInsert(j, f, FALSE, batch_data.value)>>)
    /\ UNCHANGED <<import_tasks, requests>>

\* import_data once process_dataframe has returned: the next chunk of a
\* large file, or the return of the rows imported
ProcessDataframeReturn(j) ==
    /\ frame[j].pc = "pd_return"
    /\ LET f == frame[j]
           done(g, rows, isFalse) ==
               ReturnImportData(
                   [g EXCEPT !.result = Log(@, "INFO", Msg("Completed import"))],
                   rows, isFalse)
       IN  IF f.loc.chunked
           THEN LET g == [f EXCEPT !.loc.rows_imported = @ + f.loc.ret,
                                   !.loc.chunk_start = @ + CHUNK_SIZE]
                IN  IF g.loc.chunk_start < g.loc.df.nrows
                    THEN Step(j, EnterProcessDataframe(
                                  [g EXCEPT !.result =
                                      Log(@, "INFO", MsgN("Processing chunk", g.loc.chunk_start))],
                                  ILoc(g.loc.df, g.loc.chunk_start,
                                       g.loc.chunk_start + CHUNK_SIZE)),
                              <<>>)
                    ELSE Step(j, done(g, g.loc.rows_imported, FALSE), <<>>)
           ELSE Step(j, done(f, f.loc.ret, f.loc.ret_false), <<>>)
    /\ UNCHANGED <<import_tasks, requests, faults>>

\* pool.close() and the completion of the run
ClosePool(j) ==
    /\ frame[j].pc = "close_pool"
    /\ \/ /\ UNCHANGED faults
          /\ Step(j, [frame[j] EXCEPT
                         !.pool = "closed",
                         !.result = Complete(Log(@, "INFO", Msg("All imports completed!")),
                                             TRUE, clock),
                         !.completes = @ + 1,
                         !.pc = "cleanup"],
                  <<Ev(j, frame[j], "close_pool", TRUE)>>)
       \/ /\ CanFail
          /\ faults' = faults - 1
          /\ Step(j, RaiseInRunImport(frame[j], clock),
                  <<Ev(j, frame[j], "close_pool", FALSE)>>)
    /\ UNCHANGED <<import_tasks, requests>>

\* the finally block of run_import
Cleanup(j) ==
    /\ frame[j].pc = "cleanup"
    /\ LET f == [frame[j] EXCEPT
                    !.result = Log(@, "INFO", Msg("Cleaning up temporary directory...")),
                    !.cleanups = @ + 1,
                    !.pc = "return"]
       IN  \/ /\ UNCHANGED faults
              /\ Step(j, [f EXCEPT !.download_dir = FALSE,
                                   !.result = Log(@, "INFO", Msg("Temporary directory cleaned up"))],
                      <<>>)
           \/ /\ CanFail
              /\ faults' = faults - 1
              /\ Step(j, [f EXCEPT !.result =
                             Log(@, "WARNING",
                                 Msg("Could not completely clean up temporary directory"))],
                      <<>>)
    /\ UNCHANGED <<import_tasks, requests>>

\* GET /import/{job_id}: 404 for an unknown job, the full report once the job
\* has a result, else the in-progress projection.  The result stored by
\* run_import_job's exception handler is a dict, which has no to_dict: the
\* handler raises AttributeError and the client gets 500.
get_import_status(job_id) ==
    IF job_id \notin DOMAIN import_tasks
    THEN [status_code |-> 404, detail |-> "Import job not found"]
    ELSE LET job == import_tasks[job_id]
         IN  IF job.result.kind = "ImportResult"
             THEN LET result_dict == ToDict(job.result.obj)
                  IN  [status_code |-> 200,
                       job_id |-> job_id,
                       status |-> result_dict.status,
                       start_time |-> result_dict.start_time,
                       end_time |-> result_dict.end_time,
                       duration_seconds |-> result_dict.duration_seconds,
                       downloaded_files |-> result_dict.downloaded_files,
                       processed_files |-> result_dict.processed_files,
                       errors |-> result_dict.errors,
                       row_counts |-> result_dict.row_counts,
                       log_lines |-> Len(result_dict.log_messages)]
             ELSE IF job.result.kind = "dict"
             THEN [status_code |-> 500, detail |-> "AttributeError: to_dict"]
             ELSE [status_code |-> 200,
                   job_id |-> job_id,
                   status |-> job.status,
                   start_time |-> job.start_time,
                   log_lines |-> 0]

\* GET /import/{job_id}/logs
get_import_logs(job_id) ==
    IF job_id \notin DOMAIN import_tasks
    THEN [status_code |-> 404, detail |-> "Import job not found"]
    ELSE LET job == import_tasks[job_id]
         IN  IF job.result.kind = "ImportResult"
             THEN [status_code |-> 200, logs |-> job.result.obj.log_messages]
             ELSE IF job.result.kind = "dict"
             THEN [status_code |-> 500, detail |-> "AttributeError: log_messages"]
             ELSE [status_code |-> 200,
                   logs |-> <<"Job still starting, no logs available">>]

(***************************************************************************)
(* Specifications                                                          *)
(***************************************************************************)
\* the steps of the process, the environment answering from the given sets
RunSteps(listings, schemas, contents) ==
    \/ \E j \in DOMAIN frame : run_import_job_start(j)
    \/ \E j \in DOMAIN frame : DownloadFiles(j, listings)
    \/ \E j \in DOMAIN frame : CreatePool(j)
    \/ \E j \in DOMAIN frame : Acquire(j)
    \/ \E j \in DOMAIN frame : Truncate(j)
    \/ \E j \in DOMAIN frame : GetTableSchema(j, schemas)
    \/ \E j \in DOMAIN frame : ReadCsv(j, contents)
    \/ \E j \in DOMAIN frame : ProcessDataframeStart(j)
    \/ \E j \in DOMAIN frame : ExecuteBatch(j)
    \/ \E j \in DOMAIN frame : ProcessDataframeReturn(j)
    \/ \E j \in DOMAIN frame : ClosePool(j)
    \/ \E j \in DOMAIN frame : Cleanup(j)
    \/ \E j \in DOMAIN frame : run_import_job_end(j)

NextWith(listings, schemas, contents) ==
    \/ start_import
    \/ RunSteps(listings, schemas, contents)

\* One import over any remote directory of up to MaxFiles entries, each
\* table missing or present and each file small.
Init == InitWith(1, MaxFaults)
Next == NextWith(Listings, {SchemaNone, SchemaStd}, {DfMixed})
Spec == Init /\ [][Next]_vars

\* One import of one file, over every schema and every file content of the
\* model.
InitLoad == InitWith(1, MaxLoadFaults)
NextLoad == NextWith({<<NameA>>}, Schemas, Contents)
SpecLoad == InitLoad /\ [][NextLoad]_vars

\* One import of one one-row file, over every table of up to MaxCols columns
\* and every header of up to MaxHeaders names.
RawHeaderNames == HeaderNames \cup {" id ", "<BOM>ID"}

DistinctSeqs(S, n) ==
    {s \in UNION {[1..k -> S] : k \in 0..n} :
        \A i, k \in DOMAIN s : i /= k => s[i] /= s[k]}

MatchSchemas ==
    {[i \in DOMAIN names |-> Col(names[i], "text")] :
        names \in DistinctSeqs(DbColumnNames, MaxCols)}

MatchContents ==
    {Df(columns, 1, [i \in DOMAIN columns |-> PyStrText], NoOdd, SmallBytes) :
        columns \in DistinctSeqs(RawHeaderNames, MaxHeaders)}

InitMatch == InitWith(1, 1)
NextMatch == NextWith({<<NameA>>}, MatchSchemas, MatchContents)
SpecMatch == InitMatch /\ [][NextMatch]_vars

\* Two POST /import requests whose runs interleave at their awaits: the same
\* remote file of three batches, loaded by both into the same table.  The
\* client sends the second request while the first run is between two of its
\* batches.
SecondRequestDuringLoad ==
    requests = 1 =>
        \E j \in DOMAIN frame : frame[j].pc = "batch" /\ frame[j].loc.start_idx > 0

InitJobs == InitWith(2, 0)
NextJobs ==
    \/ start_import /\ SecondRequestDuringLoad
    \/ RunSteps({<<NameA>>}, {SchemaStd}, {DfThreeBatches})
SpecJobs == InitJobs /\ [][NextJobs]_vars

\* One import of one file of LogCap batches, which logs more than LogCap
\* lines; at most one operation fails.
InitLog == InitWith(1, 1)
NextLog == NextWith({<<NameA>>}, {SchemaStd}, {DfManyBatches})
SpecLog == InitLog /\ [][NextLog]_vars

(***************************************************************************)
(* Properties                                                              *)
(***************************************************************************)
\* the database operations of job j, in order
JobEvents(j) == SelectSeq(dbLog, LAMBDA e : e.job = j)

\* the log of r has an entry with this text
LogHas(r, text) ==
    \E i \in DOMAIN r.log_messages : r.log_messages[i].message.text = text

\* run_import of job j was entered and has ended, by return or by exception
RunEnded(j) == frame[j].pc \in {"return", "done"}

\* C1: in a run, a table is truncated exactly once, before the first insert
\* into it: no truncate follows a truncate of, or an insert into, the same
\* table, and every insert follows a truncate of its table.
C1_TruncateOncePerTable ==
    \A j \in DOMAIN frame :
        LET evs == JobEvents(j)
        IN  \A i \in DOMAIN evs :
               /\ evs[i].op = "truncate" =>
                     \A k \in 1..(i - 1) :
                        ~(/\ evs[k].table = evs[i].table
                          /\ evs[k].op \in {"truncate", "executemany"})
               /\ evs[i].op = "executemany" =>
                     \E k \in 1..(i - 1) :
                        evs[k].op = "truncate" /\ evs[k].table = evs[i].table

\* C2: when download_files returns no file, the run is completed as failed
\* and issues no database operation.
DownloadReturnedNothing(j) ==
    /\ LogHas(frame[j].result, "Downloading files from SFTP server")
    /\ frame[j].files = <<>>

C2_NoFilesFailsWithoutDatabase ==
    \A j \in DOMAIN frame :
        DownloadReturnedNothing(j) =>
            /\ frame[j].result.status = "failed"
            /\ JobEvents(j) = <<>>
            /\ frame[j].pool = "none"
            /\ frame[j].pc = "done" => import_tasks[j].status = "failed"

\* C2 witness: a download failed after the listing had found files, and the
\* job has ended
C2_Witness ==
    \E j \in DOMAIN frame :
        /\ DownloadReturnedNothing(j)
        /\ LogHas(frame[j].result, "Found files")
        /\ LogHas(frame[j].result, "Error downloading files")
        /\ frame[j].pc = "done"

\* the executemany operations of job j since its last conn.prepare
CallInserts(j) ==
    LET evs == JobEvents(j)
        prep == {i \in DOMAIN evs : evs[i].op = "prepare"}
        last == IF prep = {} THEN 0 ELSE CHOOSE i \in prep : \A k \in prep : k <= i
    IN  SelectSeq(SubSeq(evs, last + 1, Len(evs)), LAMBDA e : e.op = "executemany")

\* the rows of the operations of s that succeeded
RECURSIVE RowsOk(_)
RowsOk(s) ==
    IF s = <<>> THEN 0
    ELSE (IF Head(s).ok THEN Head(s).rows ELSE 0) + RowsOk(Tail(s))

\* C3: when process_dataframe returns its row count, every batch of the frame
\* was executed, in order and whatever the fate of the batches before it, and
\* the count is the sum of the sizes of the batches whose execution succeeded.
C3_FailedBatchesOnlyReduceCount ==
    \A j \in DOMAIN frame :
        (frame[j].pc = "pd_return" /\ ~frame[j].loc.ret_false) =>
            LET ins == CallInserts(j)
                n == frame[j].loc.cur.nrows
            IN  /\ Len(ins) = (n + batch_size - 1) \div batch_size
                /\ \A k \in DOMAIN ins :
                      /\ ins[k].first = frame[j].loc.chunk_start + (k - 1) * batch_size
                      /\ ins[k].rows = Min(batch_size, n - (k - 1) * batch_size)
                /\ frame[j].loc.ret = RowsOk(ins)

\* C3 witness: three batches, the second failed, rows(batch 1) + rows(batch 3)
\* returned
C3_Witness ==
    \E j \in DOMAIN frame :
        /\ frame[j].pc = "pd_return"
        /\ Len(CallInserts(j)) = 3
        /\ CallInserts(j)[1].ok /\ ~CallInserts(j)[2].ok /\ CallInserts(j)[3].ok
        /\ frame[j].loc.ret = CallInserts(j)[1].rows + CallInserts(j)[3].rows
        /\ frame[j].loc.ret > 0

\* C4: a failure of the schema query, or a table without columns, for a file
\* that is not the last one does not end the run: after it the run goes on to
\* the next file (it acquires a connection for it).
C4_SchemaFailureSkipsOnlyTheFile ==
    \A j \in DOMAIN frame :
        RunEnded(j) =>
            LET evs == JobEvents(j)
                files == frame[j].files
            IN  \A i \in DOMAIN evs :
                   (/\ evs[i].op = "fetch"
                    /\ ~evs[i].ok \/ evs[i].rows = 0
                    /\ evs[i].file /= files[Len(files)]) =>
                       \E k \in (i + 1)..Len(evs) :
                          evs[k].op = "acquire" /\ evs[k].file /= evs[i].file

\* the load timestamps that the tuples of a batch carry
LoadedAtOf(batch) ==
    LET tuples == {batch.plain} \cup {batch.odd[i] : i \in DOMAIN batch.odd}
        cells == UNION {{t[k] : k \in DOMAIN t} : t \in tuples}
    IN  {c.at : c \in {d \in cells : d.py = "datetime" /\ d.v = "now"}}

\* C5: all rows inserted for one file in one run carry one load timestamp.
C5_OneLoadTimestampPerFile ==
    \A j \in DOMAIN frame :
        LET evs == JobEvents(j)
        IN  \A i, k \in DOMAIN evs :
               (/\ evs[i].op = "executemany" /\ evs[i].ok
                /\ evs[k].op = "executemany" /\ evs[k].ok
                /\ evs[i].file = evs[k].file) =>
                   Cardinality(LoadedAtOf(evs[i].batch) \cup LoadedAtOf(evs[k].batch)) <= 1

\* C6: no failure of the conversion of a cell leaves the row loop: the only
\* exceptions that end a file's load come from reading the file or from the
\* database.
C6_CoercionNeverPropagates ==
    \A j \in DOMAIN frame :
        \A i \in DOMAIN frame[j].result.log_messages :
            LET m == frame[j].result.log_messages[i].message
            IN  m.text = "Error processing file" =>
                    m.name \in {"OSError", "PostgresError"}

\* the names of the "Column ... not found in CSV" warnings of a log, in order
RECURSIVE MissingWarned(_)
MissingWarned(log) ==
    IF log = <<>> THEN <<>>
    ELSE (IF /\ Head(log).level = "WARNING"
             /\ Head(log).message.text = "Column not found in CSV"
          THEN <<Head(log).message.name>> ELSE <<>>) \o MissingWarned(Tail(log))

\* C7: the column mapping holds, in declared order, every declared column
\* that some header equals without regard to case, mapped to the first such
\* header, and loaded_at with no source when no header equals it; for every
\* other declared column a warning is logged and the column is left out.
C7_ColumnMapping ==
    \A j \in DOMAIN frame :
        frame[j].pc \in {"batch", "pd_return"} =>
            LET schema == frame[j].loc.schema
                db == [i \in DOMAIN schema |-> schema[i].column_name]
                cols == frame[j].loc.cur.columns
                m == frame[j].loc.matched_columns
                hits(c) == {i \in DOMAIN cols : Lower(cols[i]) = Lower(c)}
                kept == SelectSeq(db, LAMBDA c : hits(c) /= {} \/ c = "loaded_at")
                missing == SelectSeq(db, LAMBDA c : hits(c) = {} /\ c /= "loaded_at")
            IN  /\ Len(m) = Len(kept)
                /\ \A k \in DOMAIN m :
                      /\ m[k].db_col = kept[k]
                      /\ hits(kept[k]) = {} => m[k].none
                      /\ hits(kept[k]) /= {} =>
                            /\ ~m[k].none
                            /\ \E i \in hits(kept[k]) :
                                  /\ m[k].df_col = cols[i]
                                  /\ \A h \in hits(kept[k]) : i <= h
                /\ MissingWarned(frame[j].result.log_messages) = missing

\* C7 witness: a table of three columns, one equal to two headers, one
\* loaded_at without a header, one without a header and warned about
C7_Witness ==
    \E j \in DOMAIN frame :
        /\ frame[j].pc = "batch"
        /\ Len(frame[j].loc.schema) = 3
        /\ Len(frame[j].loc.matched_columns) = 2
        /\ Len(frame[j].loc.cur.columns) = 2
        /\ \E k \in {1, 2} :
              /\ frame[j].loc.matched_columns[k].none
              /\ frame[j].loc.matched_columns[3 - k].df_col = frame[j].loc.cur.columns[1]
              /\ Lower(frame[j].loc.cur.columns[1]) = Lower(frame[j].loc.cur.columns[2])
        /\ Len(MissingWarned(frame[j].result.log_messages)) = 1

\* the run of job j got past the creation of its scratch directory
ScratchCreated(j) == LogHas(frame[j].result, "Created temporary directory")

\* C8: every run_import that has ended, by return or by exception,
\* has called complete() exactly once and left a terminal status.
C8_EveryRunCompletesOnce ==
    \A j \in DOMAIN frame :
        RunEnded(j) =>
            /\ frame[j].completes = 1
            /\ frame[j].result.status \in {"success", "failed"}

\* C9: a run that created its scratch directory has run the cleanup exactly
\* once when it ends, and the cleanup step, failing or not, leaves the status
\* and the errors of the report as they were.
C9_CleanupAlwaysRunsAndOnlyWarns ==
    /\ [](\A j \in DOMAIN frame :
             /\ frame[j].cleanups <= 1
             /\ (RunEnded(j) /\ ScratchCreated(j)) => frame[j].cleanups = 1)
    /\ [][\A j \in DOMAIN frame :
             (frame[j].pc = "cleanup" /\ frame'[j].pc /= "cleanup") =>
                 /\ frame'[j].cleanups = frame[j].cleanups + 1
                 /\ frame'[j].result.status = frame[j].result.status
                 /\ frame'[j].result.errors = frame[j].result.errors]_vars

\* C9 witness: the cleanup failed after an unexpected exception had failed
\* the run; the scratch directory is still there
C9_Witness ==
    \E j \in DOMAIN frame :
        /\ frame[j].pc = "done"
        /\ LogHas(frame[j].result, "Unexpected error")
        /\ LogHas(frame[j].result, "Could not completely clean up temporary directory")
        /\ frame[j].download_dir
        /\ frame[j].cleanups = 1
        /\ Len(frame[j].result.errors) = 2

\* C10: for every job of the tracker, at every moment, both GET handlers
\* answer 200.
C10_StatusAndLogsNeverFail ==
    \A job_id \in DOMAIN import_tasks :
        /\ get_import_status(job_id).status_code = 200
        /\ get_import_logs(job_id).status_code = 200

\* C11: GET /import/{job_id} answers 404 for every id that POST /import never
\* returned; for a job whose run has not ended it answers with the status
\* starting or running and without row counts and processed files.
C11_UnknownIs404AndUnfinishedHasNoCounts ==
    /\ \A job_id \in (0..(MaxJobs + 1)) \ DOMAIN import_tasks :
          get_import_status(job_id).status_code = 404
    /\ \A job_id \in DOMAIN import_tasks :
          ~RunEnded(job_id) =>
              LET response == get_import_status(job_id)
              IN  /\ response.status_code = 200
                  /\ response.status \in {"starting", "running"}
                  /\ "row_counts" \notin DOMAIN response
                  /\ "processed_files" \notin DOMAIN response
                  /\ response.log_lines = 0

\* C11 witness: a run loading its second file, the first already in its
\* report, while the status endpoint still answers running
C11_Witness ==
    \E job_id \in DOMAIN import_tasks :
        /\ frame[job_id].pc = "batch"
        /\ Len(frame[job_id].result.processed_files) = 1
        /\ get_import_status(job_id).status = "running"
        /\ get_import_status(job_id + 1).status_code = 404

\* C12: for every load of a table by any job, no TRUNCATE of that table, by
\* any job of the process, is executed between two inserts of the load.
C12_NoTruncateInsideALoad ==
    \A a, b \in DOMAIN dbLog :
        (/\ a < b
         /\ dbLog[a].op = "executemany"
         /\ dbLog[b].op = "executemany"
         /\ dbLog[a].job = dbLog[b].job
         /\ dbLog[a].file = dbLog[b].file) =>
            \A k \in a..b :
                ~(/\ dbLog[k].op = "truncate"
                  /\ dbLog[k].ok
                  /\ dbLog[k].table = dbLog[a].table)

\* the last LogCap entries of a log, in their order
LastHundred(full) ==
    IF Len(full) <= LogCap THEN full
    ELSE [i \in 1..LogCap |-> full[Len(full) - LogCap + i]]

\* C13: whatever the number of lines a run has logged, to_dict, the line
\* count of GET /import/{job_id} and the list of GET /import/{job_id}/logs
\* expose the last 100 lines, in order, and no more.
C13_SerializedLogIsLastHundred ==
    \A job_id \in DOMAIN import_tasks :
        import_tasks[job_id].result.kind = "ImportResult" =>
            LET full == import_tasks[job_id].result.obj.log_messages
            IN  /\ ToDict(import_tasks[job_id].result.obj).log_messages = LastHundred(full)
                /\ get_import_status(job_id).log_lines = Len(LastHundred(full))
                /\ get_import_logs(job_id).logs = LastHundred(full)

\* the connections a job holds after the first k of its database operations
RECURSIVE HeldAfter(_, _)
HeldAfter(evs, k) ==
    IF k = 0 THEN 0
    ELSE HeldAfter(evs, k - 1) +
         (IF evs[k].op = "acquire" /\ evs[k].ok THEN 1
          ELSE IF evs[k].op = "release" THEN -1 ELSE 0)

\* C14: a run holds at most one connection at any moment; every statement of
\* a file is issued on the connection acquired for that file; the connection
\* is released on every way out of the file's processing, before the
\* connection of the next file is acquired and before the run goes on.
C14_OneConnectionPerFileAtATime ==
    \A j \in DOMAIN frame :
        LET evs == JobEvents(j)
        IN  /\ \A k \in 0..Len(evs) : HeldAfter(evs, k) \in {0, 1}
            /\ \A k \in DOMAIN evs :
                  /\ evs[k].op = "acquire" => HeldAfter(evs, k - 1) = 0
                  /\ evs[k].op = "release" => HeldAfter(evs, k - 1) = 1
                  /\ evs[k].op \in {"truncate", "fetch", "prepare", "executemany"} =>
                        \E a \in 1..(k - 1) :
                            /\ evs[a].op = "acquire" /\ evs[a].ok
                            /\ evs[a].file = evs[k].file
                            /\ \A b \in a..k : evs[b].op \notin {"release"}
                            /\ \A b \in (a + 1)..k : evs[b].op /= "acquire"
            /\ frame[j].conn <=> HeldAfter(evs, Len(evs)) = 1
            /\ frame[j].pc \in {"acquire", "close_pool", "cleanup", "return", "done"} =>
                  HeldAfter(evs, Len(evs)) = 0

\* C14 witness: a run of two files has ended; the first file was left because
\* its table has no schema, the second by an exception inside import_data,
\* and both connections were given back
C14_Witness ==
    \E j \in DOMAIN frame :
        LET evs == JobEvents(j)
        IN  /\ RunEnded(j)
            /\ Len(frame[j].files) = 2
            /\ Len(SelectSeq(evs, LAMBDA e : e.op = "acquire" /\ e.ok)) = 2
            /\ Len(SelectSeq(evs, LAMBDA e : e.op = "release")) = 2
            /\ \E k \in DOMAIN evs :
                  evs[k].op = "fetch" /\ evs[k].rows = 0 /\ evs[k].file = frame[j].files[1]
            /\ LogHas(frame[j].result, "Error processing file")

\* C15: a failing TRUNCATE adds no entry to the errors and leaves the status
\* as it was; the next operation of the run is the schema query of the same
\* file, on the same connection.
C15_TruncateFailureIsOnlyAWarning ==
    /\ [](\A j \in DOMAIN frame :
             LET evs == JobEvents(j)
             IN  \A k \in DOMAIN evs :
                     (evs[k].op = "truncate" /\ ~evs[k].ok) =>
                         IF k < Len(evs)
                         THEN evs[k + 1].op = "fetch" /\ evs[k + 1].file = evs[k].file
                         ELSE /\ frame[j].pc = "schema"
                              /\ frame[j].conn
                              /\ frame[j].csv_file = evs[k].file)
    /\ [][\A j \in DOMAIN frame :
             (frame[j].pc = "truncate" /\ frame'[j].pc /= "truncate") =>
                 /\ frame'[j].pc = "schema"
                 /\ frame'[j].result.errors = frame[j].result.errors
                 /\ frame'[j].result.status = frame[j].result.status
                 /\ frame'[j].result.processed_files = frame[j].result.processed_files]_vars

\* C15 witness: a run has ended with success and without errors although
\* the truncate of a file failed, and rows of that file were inserted after
C15_Witness ==
    \E j \in DOMAIN frame :
        LET evs == JobEvents(j)
        IN  /\ RunEnded(j)
            /\ frame[j].result.status = "success"
            /\ frame[j].result.errors = <<>>
            /\ LogHas(frame[j].result, "Could not truncate table")
            /\ \E k, i \in DOMAIN evs :
                  /\ k < i
                  /\ evs[k].op = "truncate" /\ ~evs[k].ok
                  /\ evs[i].op = "executemany" /\ evs[i].ok
                  /\ evs[i].file = evs[k].file
                  /\ evs[i].rows > 0

NoColumnsMatched == "No columns matched between CSV and database table"

\* C16: in a run of one file, once the No Columns Matched error is recorded
\* the load of the file is over: no statement is prepared or executed for it,
\* no further chunk of it is processed and the error is not recorded again;
\* no exception leaves the file's processing.
C16_NoColumnsMatchedAbortsTheFile ==
    \A j \in DOMAIN frame :
        LET log == frame[j].result.log_messages
        IN  \A i \in DOMAIN log :
                log[i].message.text = NoColumnsMatched =>
                    /\ \A e \in {JobEvents(j)[n] : n \in DOMAIN JobEvents(j)} :
                          e.op \notin {"prepare", "executemany"}
                    /\ \A k \in (i + 1)..Len(log) :
                          log[k].message.text \notin
                              {"Processing chunk", NoColumnsMatched,
                               "Column not found in CSV",
                               "Error processing file", "Unexpected error"}

\* the operations op of job j in the database log
OpsOf(log, j, ops) == SelectSeq(log, LAMBDA e : e.job = j /\ e.op \in ops)

\* C17: when the processing of a chunked file ends, its columns having
\* matched and no prepare or batch execution having failed, the batches
\* submitted are the rows 0..n-1 of the file, each once and in order, in
\* batches of at most batch_size rows, and the count recorded for the file is
\* n, the count of the unchunked path.
C17_ChunkedLoadSubmitsEveryRowOnce ==
    [][\A j \in DOMAIN frame :
          (/\ Len(frame'[j].result.processed_files) =
                  Len(frame[j].result.processed_files) + 1
           /\ frame[j].loc.chunked
           /\ frame[j].loc.matched_columns /= <<>>
           /\ \A i \in DOMAIN OpsOf(dbLog', j, {"prepare", "executemany"}) :
                  OpsOf(dbLog', j, {"prepare", "executemany"})[i].ok) =>
              LET n == frame[j].loc.df.nrows
                  ins == OpsOf(dbLog', j, {"executemany"})
                  entry == frame'[j].result.processed_files[
                               Len(frame'[j].result.processed_files)]
              IN  /\ entry.rows = n
                  /\ ~entry.is_false
                  /\ Len(ins) > 0
                  /\ ins[1].first = 0
                  /\ \A k \in DOMAIN ins :
                        /\ ins[k].rows >= 1
                        /\ ins[k].rows <= batch_size
                        /\ k < Len(ins) => ins[k + 1].first = ins[k].first + ins[k].rows
                        /\ k = Len(ins) => ins[k].first + ins[k].rows = n]_vars

\* the place of a tracked status in starting -> running -> success | failed
StatusRank(status) ==
    CASE status = "starting" -> 0
      [] status = "running" -> 1
      [] status \in {"success", "failed"} -> 2

\* C18: a job of the tracker has a result only when its run is over, its
\* tracked status is then success or failed and is the status of the result;
\* a tracked status never moves back, and a terminal one never changes.
C18_TrackerHoldsResultOnlyWhenComplete ==
    /\ [](\A j \in DOMAIN import_tasks :
             /\ import_tasks[j].status \in {"starting", "running", "success", "failed"}
             /\ import_tasks[j].result.kind /= "None" =>
                   /\ frame[j].pc = "done"
                   /\ import_tasks[j].status \in {"success", "failed"}
                   /\ import_tasks[j].status = import_tasks[j].result.obj.status)
    /\ [][\A j \in DOMAIN import_tasks :
             /\ StatusRank(import_tasks'[j].status) >= StatusRank(import_tasks[j].status)
             /\ StatusRank(import_tasks[j].status) = 2 =>
                   import_tasks'[j] = import_tasks[j]]_vars

\* C18 witness: the tracker holds the report of a run that ended as failed
C18_Witness ==
    \E j \in DOMAIN import_tasks :
        /\ import_tasks[j].result.kind = "ImportResult"
        /\ import_tasks[j].status = "failed"
        /\ import_tasks[j].result.obj.status = "failed"
        /\ import_tasks[j].result.obj.end_time /= NoTime

\* C19: in every state of a run the processed files are the first of the
\* downloaded files, in their order, one entry each; while a file is being
\* processed the entries are those of the files before it; a run that ended
\* with success has an entry for every downloaded file; a file left for a
\* missing schema or a failed prepare has the count 0.
C19_ProcessedIsPrefixOfDownloaded ==
    \A j \in DOMAIN frame :
        LET processed == frame[j].result.processed_files
            downloaded == frame[j].result.downloaded_files
            evs == JobEvents(j)
        IN  /\ Len(processed) <= Len(downloaded)
            /\ \A i \in DOMAIN processed :
                  /\ processed[i].file = downloaded[i]
                  /\ processed[i].rows >= 0
                  /\ \A k \in DOMAIN processed : processed[k].file = processed[i].file => k = i
                  /\ \A k \in DOMAIN evs :
                        (/\ evs[k].file = processed[i].file
                         /\ \/ evs[k].op = "fetch" /\ evs[k].ok /\ evs[k].rows = 0
                            \/ evs[k].op = "prepare" /\ ~evs[k].ok) =>
                            processed[i].rows = 0 /\ ~processed[i].is_false
            /\ frame[j].pc \in {"acquire", "truncate", "schema", "read", "match",
                                "batch", "pd_return"} =>
                  /\ Len(processed) = frame[j].fidx - 1
                  /\ downloaded[frame[j].fidx] = frame[j].csv_file
            /\ frame[j].result.status = "success" =>
                  /\ Len(processed) = Len(downloaded)
                  /\ Len(downloaded) > 0

\* C19 witness: a run of two files ended with success; the first file had no
\* schema and is recorded with 0, the second is recorded with its rows
C19_Witness ==
    \E j \in DOMAIN frame :
        /\ RunEnded(j)
        /\ frame[j].result.status = "success"
        /\ Len(frame[j].result.downloaded_files) = 2
        /\ Len(frame[j].result.processed_files) = 2
        /\ frame[j].result.processed_files[1].rows = 0
        /\ frame[j].result.processed_files[2].rows > 0
        /\ \E k \in DOMAIN JobEvents(j) :
              /\ JobEvents(j)[k].op = "fetch" /\ JobEvents(j)[k].rows = 0
              /\ JobEvents(j)[k].file = frame[j].result.downloaded_files[1]

\* the messages of the ERROR entries of a log, in order
RECURSIVE ErrorMessages(_)
ErrorMessages(log) ==
    IF log = <<>> THEN <<>>
    ELSE (IF Head(log).level = "ERROR" THEN <<Head(log).message>> ELSE <<>>)
         \o ErrorMessages(Tail(log))

\* C20: a report with status failed has at least one error; the errors of a
\* report are always the messages of the ERROR entries of its log, in order;
\* every step keeps the log and only appends to it.
C20_FailedHasErrorsAndErrorsMirrorTheLog ==
    /\ [](\A j \in DOMAIN frame :
             /\ frame[j].result.status = "failed" => frame[j].result.errors /= <<>>
             /\ frame[j].result.errors = ErrorMessages(frame[j].result.log_messages))
    /\ [][\A j \in DOMAIN frame :
             LET before == frame[j].result.log_messages
                 after == frame'[j].result.log_messages
             IN  /\ Len(before) <= Len(after)
                 /\ \A i \in DOMAIN before : after[i] = before[i]]_vars

\* C20 witness: a run that failed on the exception path after a file had
\* already added an error of its own: three errors between other lines
C20_Witness ==
    \E j \in DOMAIN frame :
        /\ frame[j].result.status = "failed"
        /\ Len(frame[j].result.errors) >= 3
        /\ Len(frame[j].result.log_messages) > Len(frame[j].result.errors)
        /\ LogHas(frame[j].result, "Unexpected error")
        /\ LogHas(frame[j].result, "Error processing file")

\* C21: a run that has ended and had created its connection pool has closed
\* it, whether every file was processed or an exception ended the run.
C21_CreatedPoolIsClosedWhenRunEnds ==
    \A j \in DOMAIN frame :
        (/\ RunEnded(j)
         /\ \E e \in {JobEvents(j)[n] : n \in DOMAIN JobEvents(j)} :
                e.op = "create_pool" /\ e.ok) =>
            /\ frame[j].pool = "closed"
            /\ \E e \in {JobEvents(j)[n] : n \in DOMAIN JobEvents(j)} :
                  e.op = "close_pool" /\ e.ok

=============================================================================
